---- MODULE Spec2Model ----
(***************************************************************************)
(* TLK v1 reader/writer (tlk.py) and the bilingual merge                   *)
(* (generate-bilingual-bg1and2ee.py).                                      *)
(*                                                                         *)
(* A text is a sequence of Unicode code points, a byte string a sequence   *)
(* of integers 0..255.  A TlkEntry is a record with the dataclass's five   *)
(* fields, a TlkFile a record [language_id, entries].                      *)
(***************************************************************************)
EXTENDS Integers, Sequences, FiniteSets, TLC

(***************************************************************************)
(* Bounds of the model.                                                    *)
(***************************************************************************)
\* most entries appended to a table
MaxEntries == 2
\* most bytes the environment cuts off the end of a written buffer
MaxCut == 2
\* most times a game file is merged over an already merged file
MaxMerges == 2

(***************************************************************************)
(* Program constants (tlk.py).                                             *)
(***************************************************************************)
HDR_SIZE == 18
ENTRY_SIZE == 26
TLK_SIGNATURE == <<84, 76, 75, 32>>
TLK_VERSION == <<86, 49, 32, 32>>
FLAG_TEXT == 1
FLAG_SOUND == 2
FLAG_TOKEN == 4

(***************************************************************************)
(* Python integers and bytes.                                              *)
(***************************************************************************)
Min(a, b) == IF a < b THEN a ELSE b

\* bit k of a non-negative integer
Bit(n, k) == (n \div (2 ^ k)) % 2

\* n | FLAG_TEXT and n & ~FLAG_TEXT for the one-bit mask FLAG_TEXT = 1
OrFlag(n, mask) == IF (n \div mask) % 2 = 1 THEN n ELSE n + mask
AndNotFlag(n, mask) == IF (n \div mask) % 2 = 1 THEN n - mask ELSE n

\* struct.pack of one unsigned little-endian field of `width` bytes.  The
\* range of format 'H' is 0..65535; format 'I' ends at 2^32-1, above every
\* integer of the model, so only its lower end can be left.
Fits(v, width) == IF width = 2 THEN v \in 0..65535 ELSE v >= 0
PackLE(v, width) == [k \in 1..width |-> (v \div (256 ^ (k - 1))) % 256]

RECURSIVE UnpackLE(_)
UnpackLE(bs) == IF bs = <<>> THEN 0 ELSE Head(bs) + 256 * UnpackLE(Tail(bs))

\* data[a:b] for 0 <= a, b: Python clamps both ends to len(data)
Slice(data, a, b) == SubSeq(data, Min(a, Len(data)) + 1, Min(b, Len(data)))

\* b.ljust(width, b'\x00')
Ljust(bs, width) ==
    IF Len(bs) >= width THEN bs
    ELSE bs \o [k \in 1..(width - Len(bs)) |-> 0]

RECURSIVE Concat(_)
Concat(seqs) == IF seqs = <<>> THEN <<>> ELSE Head(seqs) \o Concat(Tail(seqs))

(***************************************************************************)
(* str.encode(encoding, errors='replace') and                              *)
(* bytes.decode(encoding, errors='replace') for cp1252 and utf-8.          *)
(***************************************************************************)
REPLACEMENT == 65533
QUESTION == 63

\* cp1252 bytes 0x80..0x9F; 65533 marks the five bytes cp1252 leaves undefined
Cp1252High ==
    <<8364, 65533, 8218, 402, 8222, 8230, 8224, 8225, 710, 8240, 352, 8249,
      338, 65533, 381, 65533, 65533, 8216, 8217, 8220, 8221, 8226, 8211,
      8212, 732, 8482, 353, 8250, 339, 65533, 382, 376>>

DecodeCp1252Byte(b) ==
    IF b < 128 \/ b >= 160 THEN b ELSE Cp1252High[b - 127]

EncodeCp1252Char(c) ==
    IF c < 128 \/ (c >= 160 /\ c <= 255) THEN <<c>>
    ELSE IF c # REPLACEMENT /\ \E k \in 1..32 : Cp1252High[k] = c
         THEN <<127 + (CHOOSE k \in 1..32 : Cp1252High[k] = c)>>
         ELSE <<QUESTION>>

EncodeUtf8Char(c) ==
    IF c < 128 THEN <<c>>
    ELSE IF c < 2048 THEN <<192 + (c \div 64), 128 + (c % 64)>>
    ELSE IF c >= 55296 /\ c <= 57343 THEN <<QUESTION>>
    ELSE IF c < 65536
         THEN <<224 + (c \div 4096), 128 + ((c \div 64) % 64), 128 + (c % 64)>>
         ELSE <<240 + (c \div 262144), 128 + ((c \div 4096) % 64),
                128 + ((c \div 64) % 64), 128 + (c % 64)>>

EncodeChar(c, enc) ==
    IF enc = "cp1252" THEN EncodeCp1252Char(c) ELSE EncodeUtf8Char(c)

RECURSIVE Encode(_, _)
Encode(text, enc) ==
    IF text = <<>> THEN <<>>
    ELSE EncodeChar(Head(text), enc) \o Encode(Tail(text), enc)

IsCont(bs, k) == Len(bs) >= k /\ bs[k] >= 128 /\ bs[k] <= 191

\* One step of the utf-8 decoder: <<code point, bytes consumed>>.  An
\* ill-formed or cut-off sequence yields U+FFFD for its maximal valid prefix.
Utf8Step(bs) ==
    LET b == bs[1]
        lo2 == IF b = 224 THEN 160 ELSE IF b = 240 THEN 144 ELSE 128
        hi2 == IF b = 237 THEN 159 ELSE IF b = 244 THEN 143 ELSE 191
        second == Len(bs) >= 2 /\ bs[2] >= lo2 /\ bs[2] <= hi2
    IN  IF b < 128 THEN <<b, 1>>
        ELSE IF b >= 194 /\ b <= 223
             THEN IF IsCont(bs, 2)
                  THEN <<(b - 192) * 64 + (bs[2] - 128), 2>>
                  ELSE <<REPLACEMENT, 1>>
        ELSE IF b >= 224 /\ b <= 239
             THEN IF ~second THEN <<REPLACEMENT, 1>>
                  ELSE IF ~IsCont(bs, 3) THEN <<REPLACEMENT, 2>>
                  ELSE <<(b - 224) * 4096 + (bs[2] - 128) * 64 + (bs[3] - 128), 3>>
        ELSE IF b >= 240 /\ b <= 244
             THEN IF ~second THEN <<REPLACEMENT, 1>>
                  ELSE IF ~IsCont(bs, 3) THEN <<REPLACEMENT, 2>>
                  ELSE IF ~IsCont(bs, 4) THEN <<REPLACEMENT, 3>>
                  ELSE <<(b - 240) * 262144 + (bs[2] - 128) * 4096
                          + (bs[3] - 128) * 64 + (bs[4] - 128), 4>>
        ELSE <<REPLACEMENT, 1>>

RECURSIVE Decode(_, _)
Decode(bs, enc) ==
    IF bs = <<>> THEN <<>>
    ELSE IF enc = "cp1252"
         THEN <<DecodeCp1252Byte(Head(bs))>> \o Decode(Tail(bs), enc)
         ELSE LET st == Utf8Step(bs)
              IN  <<st[1]>> \o Decode(SubSeq(bs, st[2] + 1, Len(bs)), enc)

(***************************************************************************)
(* TlkEntry, TlkFile                                                       *)
(***************************************************************************)
TlkEntry(text, sound_resref, flags, volume_variance, pitch_variance) ==
    [text |-> text, sound_resref |-> sound_resref, flags |-> flags,
     volume_variance |-> volume_variance, pitch_variance |-> pitch_variance]

TlkFile(language_id) == [language_id |-> language_id, entries |-> <<>>]

(***************************************************************************)
(* TlkFile.to_bytes                                                        *)
(***************************************************************************)
\* encoded_strings: every entry's text, encoded
EncodedStrings(entries, enc) ==
    [k \in 1..Len(entries) |-> Encode(entries[k].text, enc)]

\* string_offsets: len(string_block) at the time each string is appended
RECURSIVE BlockLen(_, _)
BlockLen(encoded, n) ==
    IF n = 0 THEN 0 ELSE BlockLen(encoded, n - 1) + Len(encoded[n])

\* faulty variant: the offset is taken after the string is appended
StringOffsetsAfter(encoded) == [k \in 1..Len(encoded) |-> BlockLen(encoded, k)]

StringOffsets(encoded) == [k \in 1..Len(encoded) |-> BlockLen(encoded, k - 1)]

StringBlock(encoded) == Concat(encoded)

\* faulty variant: the header's own size is left out
StrOffsetNoHeader(num_entries) == num_entries * ENTRY_SIZE

\* str_offset = _HDR_SIZE + num_entries * _ENTRY_SIZE
StrOffset(num_entries) == HDR_SIZE + num_entries * ENTRY_SIZE

\* faulty variant: the flags are written as stored
WireFlagsStored(entry) == entry.flags

\* the flags written for an entry: bit 0 recomputed from the text
WireFlags(entry) ==
    IF entry.text # <<>> THEN OrFlag(entry.flags, FLAG_TEXT)
    ELSE AndNotFlag(entry.flags, FLAG_TEXT)

\* faulty variant: rjust instead of ljust, the zero bytes go to the left
WireSoundRjust(entry) ==
    LET cut == SubSeq(entry.sound_resref, 1, Min(8, Len(entry.sound_resref)))
    IN  [k \in 1..(8 - Len(cut)) |-> 0] \o cut

\* the sound_resref written for an entry
WireSound(entry) == Ljust(SubSeq(entry.sound_resref, 1, Min(8, Len(entry.sound_resref))), 8)

PackHeader(language_id, num_entries, str_offset) ==
    TLK_SIGNATURE \o TLK_VERSION \o PackLE(language_id, 2)
        \o PackLE(num_entries, 4) \o PackLE(str_offset, 4)

PackEntry(entry, string_offset, string_length) ==
    PackLE(WireFlags(entry), 2) \o WireSound(entry)
        \o PackLE(entry.volume_variance, 4) \o PackLE(entry.pitch_variance, 4)
        \o PackLE(string_offset, 4) \o PackLE(string_length, 4)

\* struct.pack raises struct.error for a value outside its field
PackFits(t) ==
    /\ Fits(t.language_id, 2)
    /\ \A k \in 1..Len(t.entries) :
          /\ Fits(WireFlags(t.entries[k]), 2)
          /\ Fits(t.entries[k].volume_variance, 4)
          /\ Fits(t.entries[k].pitch_variance, 4)

EntryTable(entries, encoded) ==
    Concat([k \in 1..Len(entries) |->
               PackEntry(entries[k], StringOffsets(encoded)[k], Len(encoded[k]))])

\* [ok, bytes]: the buffer, or ok = FALSE for struct.error
to_bytes(t, enc) ==
    LET encoded == EncodedStrings(t.entries, enc)
        num_entries == Len(t.entries)
    IN  IF ~PackFits(t) THEN [ok |-> FALSE, bytes |-> <<>>]
        ELSE [ok |-> TRUE,
              bytes |-> PackHeader(t.language_id, num_entries, StrOffset(num_entries))
                          \o EntryTable(t.entries, encoded)
                          \o StringBlock(encoded)]

(***************************************************************************)
(* TlkFile._parse, one step per statement group of the source:             *)
(* the header with its two checks, then one loop iteration at a time.      *)
(***************************************************************************)
\* struct.unpack_from raises struct.error unless `size` bytes lie at `off`
CanUnpack(data, off, size) == off + size <= Len(data)

\* faulty variant: the version tag is not checked
HeaderCheckSigOnly(sig, ver) ==
    IF sig # TLK_SIGNATURE THEN "ValueError" ELSE "none"

\* the two tag checks of the header: the exception raised, or "none"
HeaderCheck(sig, ver) ==
    IF sig # TLK_SIGNATURE THEN "ValueError"
    ELSE IF ver # TLK_VERSION THEN "ValueError"
    ELSE "none"

\* faulty variant: the slice is taken from the start of the buffer, not of the block
RawStrNoBase(data, string_base, str_off, str_len) ==
    Slice(data, str_off, str_off + str_len)

\* raw_str = data[string_base + str_off : string_base + str_off + str_len]
RawStr(data, string_base, str_off, str_len) ==
    Slice(data, string_base + str_off, string_base + str_off + str_len)

\* the fields of the entry record at `off`
UnpackEntry(data, off) ==
    [flags |-> UnpackLE(SubSeq(data, off + 1, off + 2)),
     sound_resref |-> SubSeq(data, off + 3, off + 10),
     vol_var |-> UnpackLE(SubSeq(data, off + 11, off + 14)),
     pitch_var |-> UnpackLE(SubSeq(data, off + 15, off + 18)),
     str_off |-> UnpackLE(SubSeq(data, off + 19, off + 22)),
     str_len |-> UnpackLE(SubSeq(data, off + 23, off + 26))]

\* the TlkEntry one loop iteration appends
ParsedEntry(data, off, string_base, enc) ==
    LET r == UnpackEntry(data, off)
    IN  TlkEntry(Decode(RawStr(data, string_base, r.str_off, r.str_len), enc),
                 r.sound_resref, r.flags, r.vol_var, r.pitch_var)

(***************************************************************************)
(* merge_tlks                                                              *)
(***************************************************************************)
\* str.isspace of one character: the code points Python treats as whitespace
IsSpace(c) ==
    \/ c \in 9..13 \/ c \in 28..32 \/ c = 133 \/ c = 160 \/ c = 5760
    \/ c \in 8192..8202 \/ c \in {8232, 8233, 8239, 8287, 12288}

RECURSIVE LStrip(_)
LStrip(text) ==
    IF text # <<>> /\ IsSpace(Head(text)) THEN LStrip(Tail(text)) ELSE text

RECURSIVE RStrip(_)
RStrip(text) ==
    IF text # <<>> /\ IsSpace(text[Len(text)])
    THEN RStrip(SubSeq(text, 1, Len(text) - 1)) ELSE text

\* str.strip()
Strip(text) == RStrip(LStrip(text))

\* the branch of the loop body taken for a pair of entries
MergeCase(p_entry, s_entry) ==
    LET p_text == Strip(p_entry.text)
        s_text == Strip(s_entry.text)
    IN  IF p_text = <<>> /\ s_text = <<>> THEN "empty"
        ELSE IF p_text = s_text \/ s_text = <<>> THEN "keep_primary"
        ELSE IF p_text = <<>> THEN "keep_secondary"
        ELSE "combine"

\* faulty variant: the blank entry keeps the primary's flags as they are
BlankEntryKeepFlags(p_entry) ==
    TlkEntry(<<>>, p_entry.sound_resref, p_entry.flags,
             p_entry.volume_variance, p_entry.pitch_variance)

\* both empty: keep blank entry
BlankEntry(p_entry) ==
    TlkEntry(<<>>, p_entry.sound_resref, AndNotFlag(p_entry.flags, FLAG_TEXT),
             p_entry.volume_variance, p_entry.pitch_variance)

\* faulty variant: the stripped text is kept
KeepPrimaryStripped(p_entry) ==
    TlkEntry(Strip(p_entry.text), p_entry.sound_resref, p_entry.flags,
             p_entry.volume_variance, p_entry.pitch_variance)

\* identical or secondary is empty: keep primary as-is
KeepPrimary(p_entry) ==
    TlkEntry(p_entry.text, p_entry.sound_resref, p_entry.flags,
             p_entry.volume_variance, p_entry.pitch_variance)

\* faulty variant: the kept secondary text comes with the secondary's sound
KeepSecondaryWhole(p_entry, s_entry) ==
    TlkEntry(s_entry.text, s_entry.sound_resref, p_entry.flags,
             p_entry.volume_variance, p_entry.pitch_variance)

\* primary is empty, secondary has text: keep secondary
KeepSecondary(p_entry, s_entry) ==
    TlkEntry(s_entry.text, p_entry.sound_resref, p_entry.flags,
             p_entry.volume_variance, p_entry.pitch_variance)

\* faulty variant: the stripped texts are combined
CombinedTextStripped(p_entry, s_entry, separator, swap) ==
    LET first == IF swap THEN Strip(s_entry.text) ELSE Strip(p_entry.text)
        second == IF swap THEN Strip(p_entry.text) ELSE Strip(s_entry.text)
    IN  first \o separator \o second

\* combined = first + separator + second
CombinedText(p_entry, s_entry, separator, swap) ==
    LET first == IF swap THEN s_entry.text ELSE p_entry.text
        second == IF swap THEN p_entry.text ELSE s_entry.text
    IN  first \o separator \o second

\* both have different text: combine them
Combine(p_entry, s_entry, separator, swap) ==
    TlkEntry(CombinedText(p_entry, s_entry, separator, swap), p_entry.sound_resref,
             OrFlag(p_entry.flags, FLAG_TEXT),
             p_entry.volume_variance, p_entry.pitch_variance)

\* the entry one loop iteration appends to merged.entries
MergeEntry(p_entry, s_entry, separator, swap) ==
    LET c == MergeCase(p_entry, s_entry)
    IN  IF c = "empty" THEN BlankEntry(p_entry)
        ELSE IF c = "keep_primary" THEN KeepPrimary(p_entry)
        ELSE IF c = "keep_secondary" THEN KeepSecondary(p_entry, s_entry)
        ELSE Combine(p_entry, s_entry, separator, swap)

\* count = min(len(primary), len(secondary))
MergeCount(prim, sec) == Min(Len(prim.entries), Len(sec.entries))

\* faulty variant: the warning is printed only when the primary is the longer
MergeWarnsPrimaryLonger(prim, sec) == Len(prim.entries) > Len(sec.entries)

\* the warning printed for an entry count mismatch
MergeWarns(prim, sec) == Len(prim.entries) # Len(sec.entries)

\* stats: the loop's counters
MergeStats(prim, sec) ==
    LET count == MergeCount(prim, sec)
        n(cases) == Cardinality({k \in 1..count :
                        MergeCase(prim.entries[k], sec.entries[k]) \in cases})
    IN  [total |-> count, combined |-> n({"combine"}),
         kept |-> n({"keep_primary", "keep_secondary"}), empty |-> n({"empty"})]

\* the TlkFile returned
merge_tlks(prim, sec, separator, swap) ==
    [language_id |-> prim.language_id,
     entries |-> [k \in 1..MergeCount(prim, sec) |->
                     MergeEntry(prim.entries[k], sec.entries[k], separator, swap)]]

(***************************************************************************)
(* The inputs of the model.                                                *)
(***************************************************************************)
NUL8 == [k \in 1..8 |-> 0]
\* b'SOUND001', b'HI', b'ABCDEFGHI'
SOUND8 == <<83, 79, 85, 78, 68, 48, 48, 49>>
SOUND2 == <<72, 73>>
SOUND9 == <<65, 66, 67, 68, 69, 70, 71, 72, 73>>

\* '', 'A', U+00E9 U+20AC (two cp1252 bytes, five utf-8 bytes), 'B' U+0100
\* (U+0100 has no cp1252 byte); flags with bit 0 right and wrong for the text;
\* sound_resref of 2, 8 and 9 bytes; one flags value beyond uint16
EntryPool ==
    { TlkEntry(<<>>, NUL8, 0, 0, 0),
      TlkEntry(<<>>, SOUND8, 3, 0, 0),
      TlkEntry(<<65>>, NUL8, 1, 0, 0),
      TlkEntry(<<233, 8364>>, SOUND8, 6, 7, 258),
      TlkEntry(<<65>>, SOUND2, 4, 0, 0),
      TlkEntry(<<66, 256>>, SOUND9, 5, 0, 0),
      TlkEntry(<<65>>, NUL8, 65536, 0, 0) }

LangIds == {0, 258}
Encodings == {"cp1252", "utf-8"}
\* the byte a corrupted tag position holds: ' ' or 'X'
CorruptBytes == {32, 88}

\* '', ' ', 'A', 'A ', 'B'
MergePool ==
    { TlkEntry(<<>>, NUL8, 3, 0, 0),
      TlkEntry(<<32>>, SOUND8, 1, 7, 0),
      TlkEntry(<<65>>, NUL8, 0, 0, 0),
      TlkEntry(<<65, 32>>, SOUND2, 5, 0, 258),
      TlkEntry(<<66>>, SOUND8, 6, 0, 0) }

\* '\n' (the default of merge_tlks) and '\n---\n' (the default of the CLI)
Separators == { <<10>>, <<10, 45, 45, 45, 10>> }

(***************************************************************************)
(* State.                                                                  *)
(***************************************************************************)
VARIABLES
    tlk,        \* the table built and written (run_self_test's tlk)
    encoding,   \* the encoding passed to to_bytes and _parse
    raw,        \* to_bytes' return value
    data,       \* the buffer _parse is given: the file to_file wrote, read back
    pc,         \* where the codec run stands
    p,          \* _parse's locals: num_entries, string_base, i, tlk, exc
    tlk2,       \* _parse's return value: <<>> while there is none
    primary,    \* merge_tlks' primary
    secondary,  \* merge_tlks' secondary
    merged,     \* merge_tlks' return value: <<>> while there is none
    call,       \* the arguments and output of the merge_tlks call made
    dst,        \* game_dir/lang/<primary>/<filename>: <<>> or <<content>>
    bak,        \* dst + '.bak': <<>> or <<content>>
    src,        \* output_dir/<filename>: <<>> or <<content>>
    sec,        \* whether game_dir/lang/<secondary>/<filename> exists
    orig        \* history: what dst held before the first operation

vars == <<tlk, encoding, raw, data, pc, p, tlk2, primary, secondary, merged, call,
         dst, bak, src, sec, orig>>
codecVars == <<tlk, encoding, raw, data, pc, p, tlk2>>
mergeVars == <<primary, secondary, merged, call>>
fileVars == <<dst, bak, src, sec, orig>>

\* the two files main works on
Filenames == {"dialog.tlk", "dialogf.tlk"}
NoFiles == [f \in Filenames |-> <<>>]

\* no game directory in play
FilesIdle ==
    /\ dst = NoFiles /\ bak = NoFiles /\ src = NoFiles /\ orig = NoFiles
    /\ sec = [f \in Filenames |-> FALSE]

NoFrame == [num_entries |-> 0, string_base |-> 0, i |-> 0,
            tlk |-> TlkFile(0), exc |-> "none"]
NoCall == [made |-> FALSE, separator |-> <<>>, swap |-> FALSE, warned |-> FALSE,
           stats |-> [total |-> 0, combined |-> 0, kept |-> 0, empty |-> 0]]

Init ==
    /\ tlk \in {TlkFile(l) : l \in LangIds}
    /\ encoding \in Encodings
    /\ raw = <<>>
    /\ data = <<>>
    /\ pc = "build"
    /\ p = NoFrame
    /\ tlk2 = <<>>
    /\ primary = TlkFile(0)
    /\ secondary = TlkFile(0)
    /\ merged = <<>>
    /\ call = NoCall
    /\ FilesIdle

(***************************************************************************)
(* Codec run: build a table, to_bytes, (the buffer is damaged), _parse.    *)
(***************************************************************************)
\* tlk.entries.append(TlkEntry(...))
AppendEntry(e) ==
    /\ pc = "build"
    /\ Len(tlk.entries) < MaxEntries
    /\ tlk' = [tlk EXCEPT !.entries = Append(@, e)]
    /\ UNCHANGED <<encoding, raw, data, pc, p, tlk2, mergeVars, fileVars>>

\* raw = tlk.to_bytes(encoding), written to the file _parse will be given
ToBytes ==
    /\ pc = "build"
    /\ LET r == to_bytes(tlk, encoding)
       IN  /\ raw' = r.bytes
           /\ data' = r.bytes
           /\ pc' = IF r.ok THEN "encoded" ELSE "pack_error"
    /\ UNCHANGED <<tlk, encoding, p, tlk2, mergeVars, fileVars>>

\* the buffer _parse is given lacks its last k bytes
Truncate(k) ==
    /\ pc = "encoded"
    /\ Len(data) = Len(raw)
    /\ data' = SubSeq(data, 1, Len(data) - k)
    /\ UNCHANGED <<tlk, encoding, raw, pc, p, tlk2, mergeVars, fileVars>>

\* the buffer _parse is given has another byte in one place of its two tags
CorruptTag(pos, b) ==
    /\ pc = "encoded"
    /\ SubSeq(data, 1, 8) = SubSeq(raw, 1, 8)
    /\ data[pos] # b
    /\ data' = [data EXCEPT ![pos] = b]
    /\ UNCHANGED <<tlk, encoding, raw, pc, p, tlk2, mergeVars, fileVars>>

Raise(exc) ==
    /\ pc' = "raised"
    /\ p' = [p EXCEPT !.exc = exc]
    /\ tlk2' = <<>>

\* _parse up to the loop: unpack the header, check the tags, make the table
ParseHeader ==
    /\ pc = "encoded"
    /\ IF ~CanUnpack(data, 0, HDR_SIZE) THEN Raise("struct.error")
       ELSE LET sig == SubSeq(data, 1, 4)
                ver == SubSeq(data, 5, 8)
                lang_id == UnpackLE(SubSeq(data, 9, 10))
                num_entries == UnpackLE(SubSeq(data, 11, 14))
                str_offset == UnpackLE(SubSeq(data, 15, 18))
            IN  IF HeaderCheck(sig, ver) # "none" THEN Raise(HeaderCheck(sig, ver))
                ELSE /\ pc' = "parse"
                     /\ p' = [num_entries |-> num_entries, string_base |-> str_offset,
                              i |-> 0, tlk |-> TlkFile(lang_id), exc |-> "none"]
                     /\ tlk2' = <<>>
    /\ UNCHANGED <<tlk, encoding, raw, data, mergeVars, fileVars>>

\* one iteration of `for i in range(num_entries)`
ParseEntry ==
    /\ pc = "parse"
    /\ p.i < p.num_entries
    /\ LET off == HDR_SIZE + p.i * ENTRY_SIZE
       IN  IF ~CanUnpack(data, off, ENTRY_SIZE) THEN Raise("struct.error")
           ELSE /\ p' = [p EXCEPT !.i = @ + 1,
                                  !.tlk.entries =
                                      Append(@, ParsedEntry(data, off, p.string_base, encoding))]
                /\ UNCHANGED <<pc, tlk2>>
    /\ UNCHANGED <<tlk, encoding, raw, data, mergeVars, fileVars>>

\* return tlk
ParseReturn ==
    /\ pc = "parse"
    /\ p.i = p.num_entries
    /\ pc' = "returned"
    /\ tlk2' = <<p.tlk>>
    /\ UNCHANGED <<tlk, encoding, raw, data, p, mergeVars, fileVars>>

Next ==
    \/ \E e \in EntryPool : AppendEntry(e)
    \/ ToBytes
    \/ \E k \in 1..MaxCut : Truncate(k)
    \/ \E pos \in 1..8, b \in CorruptBytes : CorruptTag(pos, b)
    \/ ParseHeader
    \/ ParseEntry
    \/ ParseReturn

Spec == Init /\ [][Next]_vars

(***************************************************************************)
(* Properties of the codec (specification Spec).                           *)
(***************************************************************************)
Encoded == pc \notin {"build", "pack_error"}
ParseStarted == pc \in {"parse", "returned", "raised"}
NumEntries == Len(tlk.entries)

\* entry k's record in to_bytes' result, read by the documented layout
WireEntry(k) == UnpackEntry(raw, 18 + 26 * (k - 1))

BoolBit(b) == IF b THEN 1 ELSE 0

RECURSIVE SumLen(_)
SumLen(seqs) == IF seqs = <<>> THEN 0 ELSE Len(Head(seqs)) + SumLen(Tail(seqs))

\* the encoded texts of the table, in entry order
EncodedTexts == [k \in 1..NumEntries |-> Encode(tlk.entries[k].text, encoding)]

\* every character of the text has a byte sequence of its own in the encoding
Representable(text, enc) ==
    \A k \in 1..Len(text) :
        text[k] = QUESTION \/ EncodeChar(text[k], enc) # <<QUESTION>>

RoundTripInput ==
    /\ Fits(tlk.language_id, 2)
    /\ \A k \in 1..NumEntries :
          /\ Representable(tlk.entries[k].text, encoding)
          /\ Len(tlk.entries[k].sound_resref) = 8
          /\ Fits(tlk.entries[k].flags, 2)
          /\ Fits(tlk.entries[k].volume_variance, 4)
          /\ Fits(tlk.entries[k].pitch_variance, 4)

\* C1: a table whose texts are representable in the encoding, whose
\* sound_resref values have 8 bytes and whose integers fit their fields is
\* parsed back from its own to_bytes result without an exception, with the same
\* language_id and the same entries in the same order: text, sound_resref,
\* both variances and every flag bit but bit 0 as they were, bit 0 equal to
\* (text != "").
C1_RoundTrip ==
    (RoundTripInput /\ Encoded /\ data = raw) =>
        /\ pc # "raised"
        /\ pc = "returned" =>
              /\ Len(tlk2) = 1
              /\ tlk2[1].language_id = tlk.language_id
              /\ Len(tlk2[1].entries) = NumEntries
              /\ \A k \in 1..NumEntries :
                    LET a == tlk.entries[k]
                        b == tlk2[1].entries[k]
                    IN  /\ b.text = a.text
                        /\ b.sound_resref = a.sound_resref
                        /\ b.volume_variance = a.volume_variance
                        /\ b.pitch_variance = a.pitch_variance
                        /\ \A n \in 1..15 : Bit(b.flags, n) = Bit(a.flags, n)
                        /\ Bit(b.flags, 0) = BoolBit(a.text # <<>>)

\* two entries round-tripped in utf-8, one with empty text and bit 0 set, one
\* with multi-byte text and bit 0 unset
C1_Witness ==
    /\ RoundTripInput /\ data = raw /\ pc = "returned"
    /\ encoding = "utf-8" /\ NumEntries = 2
    /\ tlk.entries[1].text = <<>> /\ Bit(tlk.entries[1].flags, 0) = 1
    /\ tlk.entries[2].text = <<233, 8364>> /\ Bit(tlk.entries[2].flags, 0) = 0

\* C2: in to_bytes' result every entry's flags field has bit 0 set exactly
\* when the entry's text is non-empty, and every other bit as in entry.flags.
C2_FlagsRecomputed ==
    Encoded =>
        \A k \in 1..NumEntries :
            /\ Bit(WireEntry(k).flags, 0) = BoolBit(tlk.entries[k].text # <<>>)
            /\ \A n \in 1..15 : Bit(WireEntry(k).flags, n) = Bit(tlk.entries[k].flags, n)

\* a written table with bit 0 set on an empty text and unset on a non-empty one
C2_Witness ==
    /\ Encoded /\ NumEntries = 2
    /\ tlk.entries[1].text = <<>> /\ Bit(tlk.entries[1].flags, 0) = 1
    /\ Bit(tlk.entries[1].flags, 1) = 1
    /\ tlk.entries[2].text # <<>> /\ Bit(tlk.entries[2].flags, 0) = 0
    /\ Bit(tlk.entries[2].flags, 2) = 1

\* C3: in to_bytes' result the first entry's string_offset is 0, every
\* string_length is the byte length of the encoded text, each next
\* string_offset is the previous one plus the previous length, and the bytes
\* after the entry table are the encoded texts in entry order, each at its
\* offset, with nothing between or after them.
C3_DensePacking ==
    Encoded =>
        LET base == 18 + 26 * NumEntries
        IN  /\ NumEntries > 0 => WireEntry(1).str_off = 0
            /\ \A k \in 1..NumEntries :
                  /\ WireEntry(k).str_len = Len(EncodedTexts[k])
                  /\ SubSeq(raw, base + WireEntry(k).str_off + 1,
                            base + WireEntry(k).str_off + WireEntry(k).str_len)
                        = EncodedTexts[k]
            /\ \A k \in 1..(NumEntries - 1) :
                  WireEntry(k + 1).str_off = WireEntry(k).str_off + WireEntry(k).str_len
            /\ Len(raw) = base + SumLen(EncodedTexts)

\* two non-empty texts written in utf-8, the first longer in bytes than in
\* characters
C3_Witness ==
    /\ Encoded /\ NumEntries = 2 /\ encoding = "utf-8"
    /\ tlk.entries[1].text = <<233, 8364>> /\ WireEntry(1).str_len = 5
    /\ tlk.entries[2].text # <<>> /\ WireEntry(2).str_off = 5

\* C4: to_bytes' result starts with the 18-byte header 'TLK ', 'V1  ',
\* language_id, entry_count = N, string_block_offset = 18 + 26*N, its length
\* is 18 + 26*N plus the lengths of the encoded texts, and the bytes from
\* string_block_offset on are the string blob.
C4_HeaderLayout ==
    Encoded =>
        LET block == UnpackLE(SubSeq(raw, 15, 18))
        IN  /\ SubSeq(raw, 1, 4) = <<84, 76, 75, 32>>
            /\ SubSeq(raw, 5, 8) = <<86, 49, 32, 32>>
            /\ UnpackLE(SubSeq(raw, 9, 10)) = tlk.language_id
            /\ UnpackLE(SubSeq(raw, 11, 14)) = NumEntries
            /\ block = 18 + 26 * NumEntries
            /\ Len(raw) = 18 + 26 * NumEntries + SumLen(EncodedTexts)
            /\ SubSeq(raw, block + 1, Len(raw)) = Concat(EncodedTexts)

\* a written table of two entries with a two-byte language_id and a blob
C4_Witness ==
    /\ Encoded /\ NumEntries = 2 /\ tlk.language_id = 258
    /\ SumLen(EncodedTexts) > 0

\* C5: the sound field of every entry record has 8 bytes: a shorter
\* sound_resref followed by zero bytes, the first 8 bytes of a longer one, an
\* 8-byte one unchanged.
C5_SoundWidth ==
    Encoded =>
        \A k \in 1..NumEntries :
            LET s == tlk.entries[k].sound_resref
                w == WireEntry(k).sound_resref
            IN  /\ Len(w) = 8
                /\ \A n \in 1..8 : w[n] = IF n <= Len(s) THEN s[n] ELSE 0

\* a written table with a 2-byte and a 9-byte sound_resref
C5_Witness ==
    /\ Encoded /\ NumEntries = 2
    /\ Len(tlk.entries[1].sound_resref) = 2
    /\ Len(tlk.entries[2].sound_resref) = 9

\* entry k of the buffer being parsed has its string range past the buffer's end
RangePastEnd(k) ==
    LET r == UnpackEntry(data, 18 + 26 * (k - 1))
    IN  p.string_base + r.str_off + r.str_len > Len(data)

\* C6: a buffer with a valid header in which some entry's string range
\* extends past the end of the buffer is not decoded into a table: _parse
\* raises and returns nothing.
C6_TruncatedRaises ==
    pc = "returned" => \A k \in 1..p.num_entries : ~RangePastEnd(k)

BadTags == SubSeq(data, 1, 4) # <<84, 76, 75, 32>> \/ SubSeq(data, 5, 8) # <<86, 49, 32, 32>>

\* C7: once _parse has looked at a buffer whose signature or version tag is
\* not exact, it has raised (ValueError when the 18 header bytes are there)
\* with no entry parsed and no table returned; a buffer with both tags exact
\* is never rejected with ValueError.
C7_FormatValidation ==
    ParseStarted =>
        /\ BadTags =>
              /\ pc = "raised" /\ p.exc # "none"
              /\ Len(data) >= 18 => p.exc = "ValueError"
              /\ tlk2 = <<>> /\ p.i = 0 /\ p.tlk.entries = <<>>
        /\ ~BadTags => p.exc # "ValueError"

\* a two-entry buffer with an exact signature and the version 'V   ', refused
C7_Witness ==
    /\ pc = "raised" /\ NumEntries = 2 /\ Len(data) = Len(raw)
    /\ SubSeq(data, 1, 4) = TLK_SIGNATURE
    /\ SubSeq(data, 5, 8) = <<86, 32, 32, 32>>

(***************************************************************************)
(* Merge run: build two tables, merge_tlks.                                *)
(***************************************************************************)
MergeInit ==
    /\ tlk = TlkFile(0)
    /\ encoding = "cp1252"
    /\ raw = <<>>
    /\ data = <<>>
    /\ pc = "build"
    /\ p = NoFrame
    /\ tlk2 = <<>>
    /\ primary \in {TlkFile(l) : l \in LangIds}
    /\ secondary = TlkFile(0)
    /\ merged = <<>>
    /\ call = NoCall
    /\ FilesIdle

\* primary.entries.append(TlkEntry(...))
AppendPrimary(e) ==
    /\ ~call.made
    /\ Len(primary.entries) < MaxEntries
    /\ primary' = [primary EXCEPT !.entries = Append(@, e)]
    /\ UNCHANGED <<secondary, merged, call, codecVars, fileVars>>

\* secondary.entries.append(TlkEntry(...))
AppendSecondary(e) ==
    /\ ~call.made
    /\ Len(secondary.entries) < MaxEntries
    /\ secondary' = [secondary EXCEPT !.entries = Append(@, e)]
    /\ UNCHANGED <<primary, merged, call, codecVars, fileVars>>

\* merged = merge_tlks(primary, secondary, separator, swap)
Merge(separator, swap) ==
    /\ ~call.made
    /\ merged' = <<merge_tlks(primary, secondary, separator, swap)>>
    /\ call' = [made |-> TRUE, separator |-> separator, swap |-> swap,
                warned |-> MergeWarns(primary, secondary),
                stats |-> MergeStats(primary, secondary)]
    /\ UNCHANGED <<primary, secondary, codecVars, fileVars>>

MergeNext ==
    \/ \E e \in MergePool : AppendPrimary(e)
    \/ \E e \in MergePool : AppendSecondary(e)
    \/ \E separator \in Separators, swap \in BOOLEAN : Merge(separator, swap)

MergeSpec == MergeInit /\ [][MergeNext]_vars

(***************************************************************************)
(* Properties of merge_tlks (specification MergeSpec).                     *)
(***************************************************************************)
\* the indices merge_tlks went through
Merged == IF call.made THEN 1..Len(merged[1].entries) ELSE {}

\* primary + separator + secondary, or the other way round when swap is set
InOrder(p_text, s_text) ==
    IF call.swap THEN s_text \o call.separator \o p_text
    ELSE p_text \o call.separator \o s_text

C10_BothEmpty ==
    \A k \in Merged :
        (primary.entries[k].text = <<>> /\ secondary.entries[k].text = <<>>) =>
            /\ merged[1].entries[k].text = <<>>
            /\ Bit(merged[1].entries[k].flags, 0) = 0
            /\ \A n \in 1..15 :
                  Bit(merged[1].entries[k].flags, n) = Bit(primary.entries[k].flags, n)

\* two empty texts merged where the primary entry had bit 0 and bit 1 set
C10_Witness ==
    /\ call.made /\ Len(merged[1].entries) >= 1
    /\ primary.entries[1].text = <<>> /\ secondary.entries[1].text = <<>>
    /\ Bit(primary.entries[1].flags, 0) = 1 /\ Bit(primary.entries[1].flags, 1) = 1
    /\ merged[1].entries[1].flags = 2

\* C11: merge_tlks returns a table whatever the two entry counts are; it
\* warns exactly when they differ; the merged table has as many entries as
\* the shorter input; merged entry k carries primary entry k's sound_resref
\* and a text made of primary entry k's and secondary entry k's texts (one
\* of them, both around the separator, or none).
C11_CountMismatch ==
    call.made =>
        LET np == Len(primary.entries)
            ns == Len(secondary.entries)
        IN  /\ Len(merged) = 1
            /\ call.warned = (np # ns)
            /\ Len(merged[1].entries) = IF np < ns THEN np ELSE ns
            /\ call.stats.total = Len(merged[1].entries)
            /\ \A k \in 1..Len(merged[1].entries) :
                  /\ merged[1].entries[k].sound_resref = primary.entries[k].sound_resref
                  /\ merged[1].entries[k].text \in
                        { <<>>, primary.entries[k].text, secondary.entries[k].text,
                          InOrder(primary.entries[k].text, secondary.entries[k].text) }

\* a primary of one entry merged with a secondary of two: a warning and one
\* combined entry
C11_Witness ==
    /\ call.made /\ call.warned
    /\ Len(primary.entries) = 1 /\ Len(secondary.entries) = 2
    /\ Len(merged[1].entries) = 1
    /\ call.stats.combined = 1

\* C12: every merged entry has primary entry k's sound_resref, variances
\* and flag bits other than bit 0, whichever branch made its text; the merged
\* table has the primary's language_id; and the step that makes the call
\* leaves primary and secondary as they were.
C12_MetadataFromPrimary ==
    /\ [](call.made =>
            /\ merged[1].language_id = primary.language_id
            /\ \A k \in 1..Len(merged[1].entries) :
                  LET m == merged[1].entries[k]
                      a == primary.entries[k]
                  IN  /\ m.sound_resref = a.sound_resref
                      /\ m.volume_variance = a.volume_variance
                      /\ m.pitch_variance = a.pitch_variance
                      /\ \A n \in 1..15 : Bit(m.flags, n) = Bit(a.flags, n))
    /\ [][(~call.made /\ call'.made) =>
            (primary' = primary /\ secondary' = secondary)]_vars

\* a merge with language_id 258 whose two entries kept the secondary's text
\* and combined both, under a secondary with other sounds and flags
C12_Witness ==
    /\ call.made /\ primary.language_id = 258 /\ Len(merged[1].entries) = 2
    /\ MergeCase(primary.entries[1], secondary.entries[1]) = "keep_secondary"
    /\ MergeCase(primary.entries[2], secondary.entries[2]) = "combine"
    /\ secondary.entries[1].sound_resref # primary.entries[1].sound_resref
    /\ secondary.entries[2].flags # primary.entries[2].flags

(***************************************************************************)
(* Install run: process_tlk_file, install_output, restore_backup on the    *)
(* files of one game directory.  A file's content is the number of merges  *)
(* that made it: 0 for a file of the game as shipped.                      *)
(***************************************************************************)
\* the secondary source of process_tlk_file: the file itself, or dialog.tlk
\* standing in for a missing dialogf.tlk
SecondaryFound(f, secondaries) ==
    secondaries[f] \/ (f = "dialogf.tlk" /\ secondaries["dialog.tlk"])

\* the merged file written: the primary merged once more
MergedFile(primary_file) == <<primary_file[1] + 1>>

\* faulty variant: the backup is taken whenever dst exists
BakAfterInstallAlways(dst_file, bak_file) ==
    IF dst_file # <<>> THEN dst_file ELSE bak_file

\* dst.bak after the backup step of install_output (src exists)
BakAfterInstall(dst_file, bak_file) ==
    IF dst_file # <<>> /\ bak_file = <<>> THEN dst_file ELSE bak_file

InstallInit ==
    /\ tlk = TlkFile(0)
    /\ encoding = "cp1252"
    /\ raw = <<>>
    /\ data = <<>>
    /\ pc = "build"
    /\ p = NoFrame
    /\ tlk2 = <<>>
    /\ primary = TlkFile(0)
    /\ secondary = TlkFile(0)
    /\ merged = <<>>
    /\ call = NoCall
    /\ dst \in [Filenames -> {<<>>, <<0>>}]
    /\ bak = NoFiles
    /\ src \in [Filenames -> {<<>>, <<1>>}]
    /\ sec \in [Filenames -> BOOLEAN]
    /\ orig = dst

\* process_tlk_file(game_dir, filename, ...) returning True
ProcessTlkFile(f) ==
    /\ dst[f] # <<>>
    /\ SecondaryFound(f, sec)
    /\ dst[f][1] < MaxMerges
    /\ src' = [src EXCEPT ![f] = MergedFile(dst[f])]
    /\ UNCHANGED <<dst, bak, sec, orig, codecVars, mergeVars>>

\* install_output(game_dir, primary_lang, output_dir, filenames)
InstallOutput(filenames) ==
    /\ bak' = [f \in Filenames |->
                  IF f \in filenames /\ src[f] # <<>>
                  THEN BakAfterInstall(dst[f], bak[f]) ELSE bak[f]]
    /\ dst' = [f \in Filenames |->
                  IF f \in filenames /\ src[f] # <<>> THEN src[f] ELSE dst[f]]
    /\ UNCHANGED <<src, sec, orig, codecVars, mergeVars>>

\* restore_backup(game_dir, primary_lang, filenames)
RestoreBackup(filenames) ==
    /\ dst' = [f \in Filenames |->
                  IF f \in filenames /\ bak[f] # <<>> THEN bak[f] ELSE dst[f]]
    /\ bak' = [f \in Filenames |->
                  IF f \in filenames /\ bak[f] # <<>> THEN <<>> ELSE bak[f]]
    /\ UNCHANGED <<src, sec, orig, codecVars, mergeVars>>

\* the filename lists the two functions are called with
FilenameLists == (SUBSET Filenames) \ {{}}

InstallNext ==
    \/ \E f \in Filenames : ProcessTlkFile(f)
    \/ \E filenames \in FilenameLists : InstallOutput(filenames)
    \/ \E filenames \in FilenameLists : RestoreBackup(filenames)

InstallSpec == InstallInit /\ [][InstallNext]_vars

(***************************************************************************)
(* Properties of install_output and restore_backup (specification          *)
(* InstallSpec).                                                           *)
(***************************************************************************)
\* C13: for a game file that existed, with no backup, before the first
\* install: its backup, whenever there is one, holds the original content,
\* and the original is always in dst or in dst.bak; an install of a file
\* whose merged source exists puts the source in dst and leaves the original
\* in dst.bak, however many installs came before; a restore of a file with a
\* backup puts the original back in dst and removes the backup.  For any
\* file, install_output leaves dst and dst.bak alone when the merged source
\* is absent, and restore_backup leaves dst alone when there is no backup.
C13_BackupPreserved ==
    /\ [](\A f \in Filenames :
            orig[f] # <<>> =>
                /\ bak[f] \in {<<>>, orig[f]}
                /\ dst[f] = orig[f] \/ bak[f] = orig[f])
    /\ [][\A filenames \in FilenameLists :
            InstallOutput(filenames) =>
                \A f \in filenames :
                    IF src[f] = <<>>
                    THEN dst'[f] = dst[f] /\ bak'[f] = bak[f]
                    ELSE /\ dst'[f] = src[f]
                         /\ orig[f] # <<>> => bak'[f] = orig[f]]_vars
    /\ [][\A filenames \in FilenameLists :
            RestoreBackup(filenames) =>
                \A f \in filenames :
                    IF bak[f] = <<>>
                    THEN dst'[f] = dst[f] /\ bak'[f] = <<>>
                    ELSE /\ bak'[f] = <<>>
                         /\ orig[f] # <<>> => dst'[f] = orig[f]]_vars

\* dialog.tlk after a second install, over an already merged file: the
\* backup still holds the original; dialogf.tlk after an install, a further
\* merge and a restore: the original is back and the backup is gone
C13_Witness ==
    /\ orig["dialog.tlk"] = <<0>>
    /\ dst["dialog.tlk"] = <<2>>
    /\ bak["dialog.tlk"] = <<0>>
    /\ orig["dialogf.tlk"] = <<0>>
    /\ src["dialogf.tlk"] = <<2>>
    /\ dst["dialogf.tlk"] = <<0>>
    /\ bak["dialogf.tlk"] = <<>>

====
